---- MODULE Spec2Model ----
(***************************************************************************)
(* Customer churn dashboard (src/app.py): one Streamlit script that is     *)
(* re-executed top to bottom on every user interaction.  The model follows *)
(* one script run step by step: load_model under st.cache_resource, the    *)
(* sidebar widgets, the feature transform, the guarded inference and       *)
(* rendering block, its except handler, the welcome screen and the footer. *)
(*                                                                         *)
(* Numbers.  Balance and salary are whole dollars.  The three ratio        *)
(* features are exact fractions [num, den].  A class probability is an     *)
(* integer k standing for k / (100 * ProbScale); churn_prob =              *)
(* probability[1] * 100 is the integer 100 * k, one percentage point is    *)
(* PercentUnit = 100 * ProbScale of these, and the thresholds 70 and 40    *)
(* are 70 * PercentUnit and 40 * PercentUnit.                              *)
(***************************************************************************)
EXTENDS Integers, Sequences, FiniteSets, TLC

\* ------------------------------------------------------------- bounds
\* Resolution of a probability: steps per percentage point.
ProbScale == 4
\* Longest feature-name list drawn for the alignment check.
MaxFeatures == 3
\* The disk-load counter saturates here.
MaxLoads == 2

\* ------------------------------------------------- program constants
HighThreshold == 70
MediumThreshold == 40
UrgentThreshold == 70
ProactiveThreshold == 40
HighValueBalance == 100000
SeniorAge == 50
FairCredit == 600
GoodCredit == 700
RiskAge == 45
RiskProducts == 3
RiskTenure == 2

\* ------------------------------------------------------------ helpers
Range(s) == {s[i] : i \in 1..Len(s)}

IndexOf(s, x) == CHOOSE i \in 1..Len(s) : s[i] = x

Ratio(n, d) == [num |-> n, den |-> d]

\* Python's  1 if c else 0
Flag(c) == IF c THEN 1 ELSE 0

\* ----------------------------------------------------- sidebar widgets
\* Widget defaults, lines 77-101.
DefaultRecord ==
    [credit_score |-> 650, geography |-> "France", gender |-> "Male",
     age |-> 35, tenure |-> 5, balance |-> 75000, num_products |-> 1,
     has_credit_card |-> TRUE, is_active |-> TRUE, estimated_salary |-> 60000]

\* The "High Risk Customer" sample of the welcome screen, lines 367-374.
HighRiskSample ==
    [DefaultRecord EXCEPT !.age = 55, !.geography = "Germany",
                          !.num_products = 4, !.is_active = FALSE, !.tenure = 10]

\* The "Low Risk Customer" sample of the welcome screen, lines 388-394.
LowRiskSample ==
    [DefaultRecord EXCEPT !.age = 30, !.num_products = 2, !.tenure = 8]

Geographies == {"France", "Germany", "Spain"}
Genders == {"Male", "Female"}
Products == {1, 2, 3, 4}

\* ---------------------------------------------------- feature transform
\* Keys of input_data in insertion order, lines 110-141.
InputColumns ==
    << "CreditScore", "Age", "Tenure", "Balance", "NumOfProducts", "HasCrCard",
       "IsActiveMember", "EstimatedSalary", "Gender", "Geography_Germany",
       "Geography_Spain", "TenureAgeRatio", "BalancePerProduct",
       "HighValueCustomer", "ActiveSenior", "ProductDiversity",
       "BalanceSalaryRatio", "CreditCategory_Good", "CreditCategory_Excellent" >>

\* Mutant: the balance threshold taken inclusively.
HighValueInclusive(r) == Flag(r.balance >= HighValueBalance)

HighValueCustomer(r) == Flag(r.balance > HighValueBalance)

ActiveSenior(r) == Flag(r.is_active /\ r.age >= SeniorAge)

ProductDiversity(r) == Flag(r.num_products \in {2, 3})

\* Mutant: the lower credit boundary taken exclusively.
CreditCategoryExclusiveBound(credit_score) ==
    IF credit_score <= FairCredit THEN [Good |-> 0, Excellent |-> 0]
    ELSE IF credit_score < GoodCredit THEN [Good |-> 1, Excellent |-> 0]
    ELSE [Good |-> 0, Excellent |-> 1]

CreditCategory(credit_score) ==
    IF credit_score < FairCredit THEN [Good |-> 0, Excellent |-> 0]
    ELSE IF credit_score < GoodCredit THEN [Good |-> 1, Excellent |-> 0]
    ELSE [Good |-> 0, Excellent |-> 1]

InputData(r) ==
    [n \in Range(InputColumns) |->
        CASE n = "CreditScore" -> r.credit_score
          [] n = "Age" -> r.age
          [] n = "Tenure" -> r.tenure
          [] n = "Balance" -> r.balance
          [] n = "NumOfProducts" -> r.num_products
          [] n = "HasCrCard" -> Flag(r.has_credit_card)
          [] n = "IsActiveMember" -> Flag(r.is_active)
          [] n = "EstimatedSalary" -> r.estimated_salary
          [] n = "Gender" -> Flag(r.gender = "Male")
          [] n = "Geography_Germany" -> Flag(r.geography = "Germany")
          [] n = "Geography_Spain" -> Flag(r.geography = "Spain")
          [] n = "TenureAgeRatio" -> Ratio(r.tenure, r.age + 1)
          [] n = "BalancePerProduct" ->
                 Ratio(r.balance * 100, r.num_products * 100 + 1)
          [] n = "HighValueCustomer" -> HighValueCustomer(r)
          [] n = "ActiveSenior" -> ActiveSenior(r)
          [] n = "ProductDiversity" -> ProductDiversity(r)
          [] n = "BalanceSalaryRatio" -> Ratio(r.balance, r.estimated_salary + 1)
          [] n = "CreditCategory_Good" -> CreditCategory(r.credit_score).Good
          [] n = "CreditCategory_Excellent" ->
                 CreditCategory(r.credit_score).Excellent]

\* pd.DataFrame([input_data]): one row, columns in key order.
DataFrame(data) ==
    [columns |-> InputColumns,
     values |-> [i \in 1..Len(InputColumns) |-> data[InputColumns[i]]]]

NoFrame == [columns |-> <<>>, values |-> <<>>]

\* input_df[feature] = 0 for a new column: appended on the right.
AddColumn(df, feature) ==
    [columns |-> Append(df.columns, feature), values |-> Append(df.values, 0)]

\* Mutant: the padding loop left out.
NoPadding(df, L) == df

\* The loop of lines 147-149 over the names of L, in order.
RECURSIVE PadFeatures(_, _)
PadFeatures(df, L) ==
    IF L = <<>> THEN df
    ELSE PadFeatures(IF Head(L) \in Range(df.columns) THEN df
                     ELSE AddColumn(df, Head(L)),
                     Tail(L))

\* input_df[feature_names]: the columns named by L in the order of L; a name
\* that is no column raises KeyError.
Reorder(df, L) ==
    IF \E i \in 1..Len(L) : L[i] \notin Range(df.columns)
    THEN [exc |-> "KeyError", df |-> NoFrame]
    ELSE [exc |-> "",
          df |-> [columns |-> L,
                  values |-> [i \in 1..Len(L) |->
                                 df.values[IndexOf(df.columns, L[i])]]]]

\* Lines 110-152 for an unpickled feature-name object: iterating an object
\* that is not iterable raises TypeError at line 147.
TransformResult(r, feats) ==
    IF ~feats.iterable THEN [exc |-> "TypeError", df |-> NoFrame]
    ELSE Reorder(PadFeatures(DataFrame(InputData(r)), feats.names), feats.names)

\* ------------------------------------------------------ risk tiering
\* Units of churn_prob per percentage point: probability[1] * 100 with a
\* probability counted in steps of 1 / (100 * ProbScale).
PercentUnit == 100 * ProbScale

\* churn_prob = probability[1] * 100, line 158 (Python index 1 is the
\* second entry).
ChurnProb(probability) == probability[2] * 100

\* Mutant: the tier thresholds taken exclusively.
RiskLevelStrict(p) ==
    IF p > HighThreshold * PercentUnit THEN "HIGH RISK"
    ELSE IF p > MediumThreshold * PercentUnit THEN "MEDIUM RISK"
    ELSE "LOW RISK"

\* Lines 165-176.
RiskLevel(p) ==
    IF p >= HighThreshold * PercentUnit THEN "HIGH RISK"
    ELSE IF p >= MediumThreshold * PercentUnit THEN "MEDIUM RISK"
    ELSE "LOW RISK"

\* Mutant: the recommendation branches on an exclusive high threshold.
RecommendationStrict(p) ==
    IF p > UrgentThreshold * PercentUnit THEN "URGENT ACTION REQUIRED"
    ELSE IF p >= ProactiveThreshold * PercentUnit
         THEN "PROACTIVE ENGAGEMENT RECOMMENDED"
    ELSE "STANDARD ENGAGEMENT"

\* Lines 234-271: the headline of the recommendation block.
Recommendation(p) ==
    IF p >= UrgentThreshold * PercentUnit THEN "URGENT ACTION REQUIRED"
    ELSE IF p >= ProactiveThreshold * PercentUnit
         THEN "PROACTIVE ENGAGEMENT RECOMMENDED"
    ELSE "STANDARD ENGAGEMENT"

\* ------------------------------------------------------- risk factors
\* One  if c: risk_factors.append(text)
Factor(c, text) == IF c THEN <<text>> ELSE <<>>

\* Mutant: the tenure rule appended before the balance rule.
RiskFactorsReordered(r) ==
    Factor(r.age > RiskAge, "Age above 45")
    \o Factor(r.geography = "Germany", "Located in Germany")
    \o Factor(r.num_products >= RiskProducts, "Has 3+ products")
    \o Factor(~r.is_active, "Inactive member")
    \o Factor(r.tenure < RiskTenure, "New customer")
    \o Factor(r.balance = 0, "Zero balance")

\* Lines 309-322.
RiskFactors(r) ==
    Factor(r.age > RiskAge, "Age above 45")
    \o Factor(r.geography = "Germany", "Located in Germany")
    \o Factor(r.num_products >= RiskProducts, "Has 3+ products")
    \o Factor(~r.is_active, "Inactive member")
    \o Factor(r.balance = 0, "Zero balance")
    \o Factor(r.tenure < RiskTenure, "New customer")

Emit(kind, text) == [kind |-> kind, text |-> text]

\* Lines 324-328.
FactorOutput(factors) ==
    IF factors # <<>>
    THEN [i \in 1..Len(factors) |-> Emit("factor", factors[i])]
    ELSE << Emit("no_factors", "No significant risk factors identified") >>

\* Mutant: the handler falls back to a default tier.
HandlerWithFallback ==
    << Emit("risk_level", "LOW RISK"), Emit("error", "Prediction error"),
       Emit("info", "Please check that all features match your trained model.") >>

\* Lines 331-332.
HandlerOutput ==
    << Emit("error", "Prediction error"),
       Emit("info", "Please check that all features match your trained model.") >>

\* What a prediction result consists of on the page.
ResultKinds ==
    {"risk_level", "churn_probability", "gauge", "stay_metric", "churn_metric",
     "risk_metric", "recommendation", "profile", "factor", "no_factors"}

\* ---------------------------------------------------------- artifacts
\* What pickle.load returns for model_features.pkl: a list of names, or
\* an object that cannot be iterated.
FeatureList(names) == [iterable |-> TRUE, names |-> names]

NotIterable == [iterable |-> FALSE, names |-> <<>>]

\* Placeholder where a file yields no object at all.
NoObject == [iterable |-> FALSE, names |-> << "" >>]

\* A feature list as the training notebook would save it.
TrainedFeatures ==
    << "CreditScore", "Gender", "Age", "Tenure", "Balance", "NumOfProducts",
       "HasCrCard", "IsActiveMember", "EstimatedSalary", "Geography_Germany",
       "Geography_Spain", "TenureAgeRatio", "BalancePerProduct",
       "HighValueCustomer", "ActiveSenior", "ProductDiversity",
       "BalanceSalaryRatio", "CreditCategory_Good", "CreditCategory_Excellent" >>

\* customer_churn_rf_model.pkl on disk: absent, unreadable, or a pickled
\* classifier (two versions, to tell a reload from a cache hit).
ModelFiles == {"missing", "corrupt", "rf_v1", "rf_v2"}

\* model_features.pkl on disk.
FeatureFiles ==
    {[status |-> "missing", obj |-> NoObject],
     [status |-> "corrupt", obj |-> NoObject],
     [status |-> "ok", obj |-> NotIterable],
     [status |-> "ok", obj |-> FeatureList(TrainedFeatures)],
     [status |-> "ok", obj |-> FeatureList(Tail(TrainedFeatures))]}

\* Mutant: only the feature file is checked.
LoadOutcomeFeaturesOnly(mf, ff) ==
    IF ff.status = "missing" THEN "FileNotFoundError"
    ELSE IF ff.status = "corrupt" THEN "UnpicklingError"
    ELSE "ok"

\* The body of load_model, lines 55-63, on the two files: the model file is
\* opened and unpickled first, then the feature file.
LoadOutcome(mf, ff) ==
    IF mf = "missing" THEN "FileNotFoundError"
    ELSE IF mf = "corrupt" THEN "UnpicklingError"
    ELSE IF ff.status = "missing" THEN "FileNotFoundError"
    ELSE IF ff.status = "corrupt" THEN "UnpicklingError"
    ELSE "ok"

EmptyCache == [loaded |-> FALSE, model |-> "", features |-> NoObject]

\* Mutant: load_model without the cache decorator.
NeverCached(c) == FALSE

\* st.cache_resource, line 53: a stored return value is reused.
CacheHit(c) == c.loaded

\* Mutant: the try block opened one line late, after predict.
GuardedFromProba ==
    {"predict_proba", "read", "risk", "gauge", "metrics", "recommend",
     "profile", "factors"}

\* The steps inside the try block, lines 155-328.
GuardedSteps ==
    {"predict", "predict_proba", "read", "risk", "gauge", "metrics",
     "recommend", "profile", "factors"}

\* Lines 156-158.
InferenceSteps == {"predict", "predict_proba", "read"}

\* Lines 110-152.
TransformSteps == {"transform"}

\* -------------------------------------------------------------- state
VARIABLES
    modelFile,       \* customer_churn_rf_model.pkl on disk
    featFile,        \* model_features.pkl on disk
    cache,           \* the st.cache_resource entry of load_model
    loads,           \* completed disk loads of the artifact (saturating)
    used,            \* the artifacts inference has been called with
    pc,              \* position of the script run; "idle" between runs
    predict_button,  \* line 105
    rec,             \* the widget values of this run, lines 77-101
    model,           \* line 65
    feature_names,   \* line 65
    input_df,        \* lines 144-152
    probability,     \* line 157
    churn_prob,      \* line 158
    out,             \* what this run has put on the page, in order
    raisedAt,        \* the step that raised in this run, "" if none
    lastFailed       \* the previous run ended in the except clause

vars ==
    << modelFile, featFile, cache, loads, used, pc, predict_button, rec, model,
       feature_names, input_df, probability, churn_prob, out, raisedAt,
       lastFailed >>

\* What no step of a run changes: the files and the record of the previous run.
outside == << modelFile, featFile, lastFailed >>

\* The names bound by one script run.
locals == << model, feature_names, input_df, probability, churn_prob >>

Kinds(o) == {o[i].kind : i \in 1..Len(o)}

\* The sidebar form and the predict button are on the page.
FormShown == "form" \in Kinds(out)

\* Records a user can submit in the lifecycle specification.
SampleRecords == {DefaultRecord, HighRiskSample, LowRiskSample}

\* predict_proba(input_df)[0] of a two-class and of a one-class classifier.
TwoClass(k) == << PercentUnit - k, k >>

OneClass == << PercentUnit >>

\* Churn probabilities around the two thresholds, in percentage points.
BoundaryPercents == {0, 39, 40, 69, 70, 100}

SampleProbabilities ==
    {TwoClass(q * ProbScale) : q \in BoundaryPercents}
    \cup {TwoClass(HighThreshold * ProbScale - 1),
          TwoClass(MediumThreshold * ProbScale - 1), OneClass}

\* ------------------------------------------------------------ actions
\* An exception raised at a step: inside the try block control passes to
\* the except clause of line 330; outside it the exception leaves the
\* script, the run ends there and the framework shows the exception.
Raise(step) ==
    /\ raisedAt' = step
    /\ IF step \in GuardedSteps
       THEN /\ pc' = "except"
            /\ out' = out
       ELSE /\ pc' = "idle"
            /\ out' = Append(out, Emit("uncaught", step))

\* The operator replaces a file of the artifact between two runs.
Deploy ==
    /\ pc = "idle"
    /\ \E mf \in ModelFiles, ff \in FeatureFiles :
          /\ << mf, ff >> # << modelFile, featFile >>
          /\ modelFile' = mf
          /\ featFile' = ff
    /\ UNCHANGED << lastFailed, cache, loads, used, pc, predict_button, rec, locals, out,
                    raisedAt >>

\* A page load or a widget interaction starts a script run; the button is
\* TRUE only in the run its click starts, and can be clicked only when the
\* previous run has put it on the page.
StartRun ==
    /\ pc = "idle"
    /\ \E b \in BOOLEAN, r \in SampleRecords :
          /\ b => FormShown
          /\ ~FormShown => r = DefaultRecord
          /\ predict_button' = b
          /\ rec' = r
    /\ pc' = "load"
    /\ out' = <<>>
    /\ raisedAt' = ""
    /\ model' = ""
    /\ feature_names' = NoObject
    /\ input_df' = NoFrame
    /\ probability' = <<>>
    /\ churn_prob' = 0
    /\ lastFailed' = (raisedAt \in GuardedSteps)
    /\ UNCHANGED << modelFile, featFile, cache, loads, used >>

\* model, feature_names = load_model(), lines 53-65.
LoadModel ==
    /\ pc = "load"
    /\ IF CacheHit(cache)
       THEN /\ model' = cache.model
            /\ feature_names' = cache.features
            /\ pc' = "widgets"
            /\ UNCHANGED << cache, loads, out, raisedAt >>
       ELSE LET outcome == LoadOutcome(modelFile, featFile) IN
            IF outcome = "ok"
            THEN /\ cache' = [loaded |-> TRUE, model |-> modelFile,
                              features |-> featFile.obj]
                 /\ loads' = IF loads < MaxLoads THEN loads + 1 ELSE loads
                 /\ model' = modelFile
                 /\ feature_names' = featFile.obj
                 /\ pc' = "widgets"
                 /\ UNCHANGED << out, raisedAt >>
            ELSE IF outcome = "FileNotFoundError"
            THEN \* st.error and st.stop(), lines 62-63
                 /\ out' = Append(out, Emit("startup_error", "Model files not found!"))
                 /\ pc' = "idle"
                 /\ raisedAt' = "load"
                 /\ UNCHANGED << cache, loads, model, feature_names >>
            ELSE /\ Raise("load")
                 /\ UNCHANGED << cache, loads, model, feature_names >>
    /\ UNCHANGED << outside, used, predict_button, rec, input_df, probability,
                    churn_prob >>

\* Title, sidebar widgets, predict button and the branch of line 108.
Widgets ==
    /\ pc = "widgets"
    /\ out' = out \o << Emit("title", "Customer Churn Early Warning System"),
                        Emit("form", "PREDICT CHURN RISK") >>
    /\ pc' = IF predict_button THEN "transform" ELSE "welcome"
    /\ UNCHANGED << outside, cache, loads, used, predict_button, rec, locals,
                    raisedAt >>

\* Lines 110-152: input_data, the DataFrame, padding and reordering.
Transform ==
    /\ pc = "transform"
    /\ LET res == TransformResult(rec, feature_names) IN
       IF res.exc = ""
       THEN /\ input_df' = res.df
            /\ pc' = "predict"
            /\ UNCHANGED << out, raisedAt >>
       ELSE /\ Raise("transform")
            /\ UNCHANGED input_df
    /\ UNCHANGED << outside, cache, loads, used, predict_button, rec, model,
                    feature_names, probability, churn_prob >>

\* Line 156: the classifier is a black box that returns or raises.
Predict ==
    /\ pc = "predict"
    /\ used' = used \cup {<< model, feature_names >>}
    /\ \E ok \in BOOLEAN :
          IF ok THEN pc' = "predict_proba" /\ UNCHANGED << out, raisedAt >>
          ELSE Raise("predict")
    /\ UNCHANGED << outside, cache, loads, predict_button, rec, locals >>

\* Line 157.
PredictProba ==
    /\ pc = "predict_proba"
    /\ \E ok \in BOOLEAN :
          IF ok
          THEN /\ probability' \in SampleProbabilities
               /\ pc' = "read"
               /\ UNCHANGED << out, raisedAt >>
          ELSE Raise("predict_proba") /\ UNCHANGED probability
    /\ UNCHANGED << outside, cache, loads, used, predict_button, rec, model,
                    feature_names, input_df, churn_prob >>

\* Line 158: probability[1] of a one-entry vector raises IndexError.
ReadChurn ==
    /\ pc = "read"
    /\ IF Len(probability) >= 2
       THEN /\ churn_prob' = ChurnProb(probability)
            /\ pc' = "risk"
            /\ UNCHANGED << out, raisedAt >>
       ELSE Raise("read") /\ UNCHANGED churn_prob
    /\ UNCHANGED << outside, cache, loads, used, predict_button, rec, model,
                    feature_names, input_df, probability >>

\* A rendering step of the try block: it puts its elements on the page, or
\* the call into the presentation layer raises.
Render(step, elements, next) ==
    /\ pc = step
    /\ \E ok \in BOOLEAN :
          IF ok THEN /\ out' = out \o elements
                     /\ pc' = next
                     /\ UNCHANGED raisedAt
          ELSE Raise(step)
    /\ UNCHANGED << outside, cache, loads, used, predict_button, rec, locals >>

\* Lines 161-184: the tier and the risk display.
RenderRisk ==
    Render("risk",
           << Emit("risk_level", RiskLevel(churn_prob)),
              Emit("churn_probability", "Churn Probability") >>,
           "gauge")

\* Lines 187-213.
RenderGauge == Render("gauge", << Emit("gauge", "Churn Probability") >>, "metrics")

\* Lines 216-228.
RenderMetrics ==
    Render("metrics",
           << Emit("stay_metric", "Stay Probability"),
              Emit("churn_metric", "Churn Probability"),
              Emit("risk_metric", RiskLevel(churn_prob)) >>,
           "recommend")

\* Lines 231-271.
Recommend ==
    Render("recommend",
           << Emit("recommendation", Recommendation(churn_prob)) >>,
           "profile")

\* Lines 274-303.
Profile == Render("profile", << Emit("profile", "Customer Profile Summary") >>, "factors")

\* Lines 306-328.
RenderFactors == Render("factors", FactorOutput(RiskFactors(rec)), "footer")

\* Lines 330-332.
Handler ==
    /\ pc = "except"
    /\ out' = out \o HandlerOutput
    /\ pc' = "footer"
    /\ UNCHANGED << outside, cache, loads, used, predict_button, rec, locals,
                    raisedAt >>

\* Lines 334-394.
Welcome ==
    /\ pc = "welcome"
    /\ out' = Append(out, Emit("welcome", "About This System"))
    /\ pc' = "footer"
    /\ UNCHANGED << outside, cache, loads, used, predict_button, rec, locals,
                    raisedAt >>

\* Lines 396-404.
Footer ==
    /\ pc = "footer"
    /\ out' = Append(out, Emit("footer", "Customer Churn Prediction System"))
    /\ pc' = "idle"
    /\ UNCHANGED << outside, cache, loads, used, predict_button, rec, locals,
                    raisedAt >>

\* ------------------------------------------------ lifecycle specification
Init ==
    /\ modelFile \in ModelFiles
    /\ featFile \in FeatureFiles
    /\ cache = EmptyCache
    /\ loads = 0
    /\ used = {}
    /\ pc = "idle"
    /\ predict_button = FALSE
    /\ rec = DefaultRecord
    /\ model = ""
    /\ feature_names = NoObject
    /\ input_df = NoFrame
    /\ probability = <<>>
    /\ churn_prob = 0
    /\ out = <<>>
    /\ raisedAt = ""
    /\ lastFailed = FALSE

GuardedBlock ==
    \/ Predict \/ PredictProba \/ ReadChurn \/ RenderRisk \/ RenderGauge
    \/ RenderMetrics \/ Recommend \/ Profile \/ RenderFactors \/ Handler

Next ==
    \/ Deploy \/ StartRun \/ LoadModel \/ Widgets \/ Transform
    \/ GuardedBlock \/ Welcome \/ Footer

Spec == Init /\ [][Next]_vars

\* ----------------------------------------- the guarded block on its own
\* A run that has reached line 158 with a loaded artifact: the probability
\* sweeps every step of [0, 100] for the default customer, and the customer
\* sweeps the risk-factor grid for probabilities at the thresholds.
FactorGrid ==
    {[DefaultRecord EXCEPT !.age = a, !.geography = g, !.num_products = n,
                           !.is_active = act, !.balance = b, !.tenure = t] :
        a \in {18, 45, 46, 55, 100}, g \in Geographies, n \in Products,
        act \in BOOLEAN, b \in {0, 1, 75000}, t \in {0, 1, 2, 10}}

\* The state load_model leaves behind for a feature-name object.
InitAfterLoad(features) ==
    /\ modelFile = "rf_v1"
    /\ featFile = [status |-> "ok", obj |-> features]
    /\ cache = [loaded |-> TRUE, model |-> "rf_v1", features |-> features]
    /\ loads = 1
    /\ predict_button = TRUE
    /\ model = cache.model
    /\ feature_names = cache.features
    /\ churn_prob = 0
    /\ out = << Emit("title", "Customer Churn Early Warning System"),
                Emit("form", "PREDICT CHURN RISK") >>
    /\ raisedAt = ""
    /\ lastFailed = FALSE

InitRender ==
    /\ InitAfterLoad(FeatureList(TrainedFeatures))
    /\ pc = "read"
    /\ used = {<< model, feature_names >>}
    /\ \/ /\ rec = DefaultRecord
          /\ probability \in {TwoClass(k) : k \in 0..PercentUnit} \cup {OneClass}
       \/ /\ rec \in FactorGrid
          /\ probability \in {TwoClass(q * ProbScale) : q \in {0, 40, 70}}
    /\ input_df = TransformResult(rec, feature_names).df

NextRender ==
    \/ ReadChurn \/ RenderRisk \/ RenderGauge \/ RenderMetrics \/ Recommend
    \/ Profile \/ RenderFactors \/ Handler \/ Footer

SpecRender == InitRender /\ [][NextRender]_vars

\* ------------------------------------- the feature transform on its own
\* A run that has reached line 110: every credit score for the default
\* customer, the boundary values of the other fields, and every feature
\* list of up to MaxFeatures names for the sample customers.
TransformGrid ==
    {[DefaultRecord EXCEPT !.credit_score = c] : c \in 300..850}
    \cup
    {[credit_score |-> c, geography |-> g, gender |-> s, age |-> a, tenure |-> 5,
      balance |-> b, num_products |-> n, has_credit_card |-> TRUE,
      is_active |-> act, estimated_salary |-> 60000] :
        c \in {300, 599, 600, 699, 700, 850}, g \in Geographies, s \in Genders,
        a \in {18, 49, 50, 100}, b \in {0, 100000, 100001, 300000},
        n \in Products, act \in BOOLEAN}

\* Names a feature list may hold: some the transform produces, some not.
NameUniverse ==
    {"Age", "BalancePerProduct", "CreditCategory_Good", "Geography_Spain",
     "Geography_France", "CreditCategory_Poor"}

FeatureLists ==
    UNION {[1..n -> NameUniverse] : n \in 0..MaxFeatures}

InitTransform ==
    /\ \/ /\ rec \in TransformGrid
          /\ InitAfterLoad(FeatureList(TrainedFeatures))
       \/ /\ rec \in SampleRecords
          /\ \E f \in {FeatureList(L) : L \in FeatureLists} \cup {NotIterable} :
                InitAfterLoad(f)
    /\ pc = "transform"
    /\ used = {}
    /\ probability = <<>>
    /\ input_df = NoFrame

NextTransform == Transform

SpecTransform == InitTransform /\ [][NextTransform]_vars

\* ============================================================ properties
Value(df, name) == df.values[IndexOf(df.columns, name)]

\* The texts of the elements of one kind on the page, in page order.
Texts(kind) ==
    LET sel == SelectSeq(out, LAMBDA e : e.kind = kind)
    IN  [i \in 1..Len(sel) |-> sel[i].text]

\* The run has ended, or is about to render the footer.
AtEnd == pc \in {"footer", "idle"}

\* A prediction request that went through the whole try block.
Succeeded == AtEnd /\ predict_button /\ raisedAt = ""

LoadableModels == {"rf_v1", "rf_v2"}

\* C1: every churn probability in [0,100] gets exactly one tier: HIGH iff
\* p >= 70, MEDIUM iff 40 <= p < 70, LOW iff p < 40; 40 is MEDIUM and 70
\* is HIGH.
C1_RiskTierPartition ==
    /\ churn_prob \in 0..(100 * PercentUnit)
    /\ pc \in {"gauge", "metrics", "recommend", "profile", "factors"}
          => Len(Texts("risk_level")) = 1
    /\ \A i \in 1..Len(out) :
          out[i].kind \in {"risk_level", "risk_metric"} =>
             LET t == out[i].text
                 p == churn_prob
             IN  /\ t \in {"HIGH RISK", "MEDIUM RISK", "LOW RISK"}
                 /\ (t = "HIGH RISK") <=> (p >= 70 * PercentUnit)
                 /\ (t = "MEDIUM RISK") <=>
                       (40 * PercentUnit <= p /\ p < 70 * PercentUnit)
                 /\ (t = "LOW RISK") <=> (p < 40 * PercentUnit)

C1_Witness ==
    /\ churn_prob = 70 * PercentUnit
    /\ Texts("risk_level") = << "HIGH RISK" >>

\* C10: in a successful prediction there is exactly one recommendation
\* block and it is the one of the displayed risk label.
C10_LabelMatchesRecommendation ==
    LET labels == Texts("risk_level")
        recs == Texts("recommendation")
    IN  /\ Len(recs) <= 1
        /\ Succeeded => Len(recs) = 1
        /\ Len(recs) = 1 =>
              /\ Len(labels) = 1
              /\ recs[1] \in {"URGENT ACTION REQUIRED",
                              "PROACTIVE ENGAGEMENT RECOMMENDED",
                              "STANDARD ENGAGEMENT"}
              /\ (recs[1] = "URGENT ACTION REQUIRED") <=> (labels[1] = "HIGH RISK")
              /\ (recs[1] = "PROACTIVE ENGAGEMENT RECOMMENDED") <=>
                    (labels[1] = "MEDIUM RISK")
              /\ (recs[1] = "STANDARD ENGAGEMENT") <=> (labels[1] = "LOW RISK")

C10_Witness ==
    /\ Succeeded
    /\ churn_prob = 40 * PercentUnit
    /\ Texts("risk_level") = << "MEDIUM RISK" >>
    /\ Texts("recommendation") = << "PROACTIVE ENGAGEMENT RECOMMENDED" >>

\* The six rules of the risk-factor list in their fixed order.
FactorRules(r) ==
    << [holds |-> r.age > 45, text |-> "Age above 45"],
       [holds |-> r.geography = "Germany", text |-> "Located in Germany"],
       [holds |-> r.num_products >= 3, text |-> "Has 3+ products"],
       [holds |-> ~r.is_active, text |-> "Inactive member"],
       [holds |-> r.balance = 0, text |-> "Zero balance"],
       [holds |-> r.tenure < 2, text |-> "New customer"] >>

ExpectedFactors(r) ==
    LET sel == SelectSeq(FactorRules(r), LAMBDA f : f.holds)
    IN  [i \in 1..Len(sel) |-> sel[i].text]

\* C8: the emitted risk-factor list is exactly the rules that hold, once
\* each and in rule order, whatever the churn probability; the "no risk
\* factors" message appears iff no rule holds.
C8_RiskFactorList ==
    /\ Succeeded =>
          /\ Texts("factor") = ExpectedFactors(rec)
          /\ ("no_factors" \in Kinds(out)) <=> (ExpectedFactors(rec) = <<>>)
    /\ ~AtEnd => Kinds(out) \cap {"factor", "no_factors"} = {}

C8_Witness ==
    /\ Succeeded
    /\ rec.age = 55 /\ rec.geography = "Germany" /\ rec.num_products = 4
    /\ ~rec.is_active /\ rec.tenure = 10 /\ rec.balance # 0
    /\ Texts("factor") = << "Age above 45", "Located in Germany",
                            "Has 3+ products", "Inactive member" >>

\* The transform has run for the trained feature list.
Transformed == pc = "predict" /\ feature_names = FeatureList(TrainedFeatures)

\* C7: the two credit-category flags are never both 1 and follow the
\* three regimes of the credit score.
C7_CreditCategoryExclusive ==
    Transformed =>
       LET score == rec.credit_score
           good == Value(input_df, "CreditCategory_Good")
           excellent == Value(input_df, "CreditCategory_Excellent")
       IN  /\ score \in 300..850
           /\ ~(good = 1 /\ excellent = 1)
           /\ score < 600 => good = 0 /\ excellent = 0
           /\ (600 <= score /\ score < 700) => good = 1 /\ excellent = 0
           /\ score >= 700 => good = 0 /\ excellent = 1

C7_Witness ==
    /\ Transformed
    /\ rec.credit_score = 699
    /\ Value(input_df, "CreditCategory_Good") = 1
    /\ Value(input_df, "CreditCategory_Excellent") = 0

\* C9: the indicator features equal their reference definitions.
C9_IndicatorDefinitions ==
    Transformed =>
       LET v(name) == Value(input_df, name)
       IN  /\ \A n \in {"Gender", "Geography_Germany", "Geography_Spain",
                        "HighValueCustomer", "ActiveSenior", "ProductDiversity"} :
                 v(n) \in {0, 1}
           /\ (v("Gender") = 1) <=> (rec.gender = "Male")
           /\ (v("Geography_Germany") = 1) <=> (rec.geography = "Germany")
           /\ (v("Geography_Spain") = 1) <=> (rec.geography = "Spain")
           /\ ~(v("Geography_Germany") = 1 /\ v("Geography_Spain") = 1)
           /\ rec.geography = "France" =>
                 v("Geography_Germany") = 0 /\ v("Geography_Spain") = 0
           /\ (v("HighValueCustomer") = 1) <=> (rec.balance > 100000)
           /\ (v("ActiveSenior") = 1) <=> (rec.is_active /\ rec.age >= 50)
           /\ (v("ProductDiversity") = 1) <=> (rec.num_products \in {2, 3})

C9_Witness ==
    /\ Transformed
    /\ rec.balance = 100000 /\ Value(input_df, "HighValueCustomer") = 0
    /\ rec.age = 50 /\ rec.is_active /\ Value(input_df, "ActiveSenior") = 1

\* C6: for a feature list L the frame passed on has the names of L in the
\* order of L, a produced name keeps the transform's value, any other name
\* has 0, and the alignment does not raise.
C6_FeatureAlignment ==
    feature_names.iterable =>
       LET L == feature_names.names
       IN  /\ raisedAt = ""
           /\ pc = "predict" =>
                 /\ input_df.columns = L
                 /\ Len(input_df.values) = Len(L)
                 /\ \A i \in 1..Len(L) :
                       input_df.values[i] =
                          IF L[i] \in Range(InputColumns)
                          THEN InputData(rec)[L[i]] ELSE 0

C6_Witness ==
    /\ pc = "predict"
    /\ feature_names.names = << "CreditCategory_Poor", "Age", "Geography_France" >>
    /\ input_df.columns = feature_names.names
    /\ input_df.values = << 0, rec.age, 0 >>

\* C2 as stated: an exception raised at any step of the transform or of
\* classification ends in the "Prediction error" message of the handler.
C2_AnyFailureCaught ==
    raisedAt \in TransformSteps \cup InferenceSteps =>
       /\ "uncaught" \notin Kinds(out)
       /\ AtEnd => "error" \in Kinds(out)

\* C2 amended: an exception of predict, predict_proba or the read of the
\* churn-class probability is caught by the handler, the run goes on to the
\* footer with the form on the page and the cached artifact untouched, and
\* the request after a failed one runs with the same artifact; an exception
\* of the transform is outside the try block and leaves the script uncaught.
C2_InferenceFailureCaught ==
    /\ raisedAt \in InferenceSteps =>
          /\ pc \in {"except", "footer", "idle"}
          /\ "uncaught" \notin Kinds(out)
          /\ AtEnd => "error" \in Kinds(out)
          /\ pc = "idle" => "footer" \in Kinds(out)
          /\ FormShown
          /\ cache.loaded /\ cache.model = model /\ cache.features = feature_names
    /\ raisedAt \in TransformSteps =>
          /\ pc = "idle"
          /\ "uncaught" \in Kinds(out)
          /\ "error" \notin Kinds(out)
    /\ (lastFailed /\ pc \notin {"idle", "load"}) =>
          used = {<< model, feature_names >>}

C2_Witness ==
    /\ lastFailed
    /\ Succeeded
    /\ pc = "idle"
    /\ "recommendation" \in Kinds(out)

\* C3 as stated: whenever the "Prediction error" message is on the page, no
\* part of the prediction result is.
C3_ErrorMeansNoResult ==
    "error" \in Kinds(out) => Kinds(out) \cap ResultKinds = {}

\* C3 amended: the message comes only from a step of the try block; when
\* that step is predict, predict_proba or the read of the churn-class
\* probability no part of the result is on the page; and a request that
\* raised nowhere shows every part of the result and no message.
C3_InferenceFailureEmitsNothing ==
    /\ "error" \in Kinds(out) =>
          /\ raisedAt \in GuardedSteps
          /\ raisedAt \in InferenceSteps => Kinds(out) \cap ResultKinds = {}
    /\ (Succeeded /\ pc = "idle") =>
          /\ "error" \notin Kinds(out)
          /\ ResultKinds \ {"factor", "no_factors"} \subseteq Kinds(out)
          /\ Kinds(out) \cap {"factor", "no_factors"} # {}

C3_Witness ==
    /\ pc = "idle"
    /\ raisedAt = "read"
    /\ "error" \in Kinds(out)
    /\ Kinds(out) \cap ResultKinds = {}

\* C4: a run whose artifact cannot be loaded reports it and ends before the
\* form exists; the form, a request and an inference call exist only with
\* both artifacts loaded.
C4_NoRequestWithoutArtifacts ==
    /\ raisedAt = "load" =>
          /\ pc = "idle"
          /\ ~FormShown
          /\ ~cache.loaded
          /\ Len(out) = 1
          /\ out[1].kind \in {"startup_error", "uncaught"}
    /\ (FormShown \/ predict_button \/ pc \notin {"idle", "load"}) =>
          /\ cache.loaded
          /\ cache.model \in LoadableModels
          /\ cache.features # NoObject
    /\ pc \notin {"idle", "load"} =>
          model = cache.model /\ feature_names = cache.features
    /\ \A u \in used : u[1] \in LoadableModels /\ u[2] # NoObject

C4_Witness ==
    /\ raisedAt = "load"
    /\ pc = "idle"
    /\ modelFile \in LoadableModels
    /\ featFile.status = "missing"
    /\ Kinds(out) = {"startup_error"}

\* C5: the artifact is loaded from disk once, before the first request,
\* never again, and never changed: every request runs with the same model
\* and feature-name list.
C5_LoadedOnceNeverChanged ==
    /\ [](/\ loads <= 1
          /\ cache.loaded <=> loads = 1
          /\ Cardinality(used) <= 1
          /\ pc \notin {"idle", "load"} =>
                /\ loads = 1
                /\ model = cache.model
                /\ feature_names = cache.features
          /\ \A u \in used : u = << cache.model, cache.features >>)
    /\ [][cache.loaded => cache' = cache]_vars

C5_Witness ==
    /\ Succeeded
    /\ pc = "idle"
    /\ loads = 1
    /\ modelFile \in LoadableModels
    /\ modelFile # cache.model
    /\ used = {<< cache.model, cache.features >>}

====
